---------------------------- MODULE Spec2Model ----------------------------
(***************************************************************************)
(* A model of incremental-backups-tools: directory indexes and their diff  *)
(* (DirIndex, DiffIndex), the diff archive (DiffData), its application to  *)
(* a directory (apply_diff), the multi-volume tar writer (TarVolumeWriter) *)
(* and the backup chain (full_backup, incremental_backup, restore_backup). *)
(***************************************************************************)
EXTENDS Integers, Sequences, FiniteSets, TLC

VARIABLES
    \* ---- diff / pack / apply pipeline (src/incremental_backups_tools.py)
    pc,          \* position of the pipeline / of apply_diff
    dirA,        \* the original directory (the one cmp_index was taken of)
    dirB,        \* the modified directory (the one dir_index was taken of)
    diff_index,  \* DiffIndex.compute() result
    tmpfiles,    \* the delta temporary files, by name
    archive,     \* the members of the diff archive, in the order written
    target,      \* the directory apply_diff patches (base_path)
    target0,     \* base_path as it was when apply_diff was called
    idx,         \* loop position inside the current apply_diff loop
    patched,     \* the tempfile holding the patched version of a file
    log,         \* what was written to the log
    outcome,     \* what the caller of apply_diff observes
    \* ---- delta engine alone
    d_old,       \* B_old
    d_new,       \* B_new
    d_out,       \* the output stream of the patch
    \* ---- TarVolumeWriter (src/incremental_backups_tools/tarvolume.py)
    writer,      \* the fields of the TarVolumeWriter
    disk,        \* the volume files, by volume number
    reader,      \* the last call made on a TarVolumeReader
    \* ---- backup and restore (src/incremental_backups_tools/__init__.py)
    cache,       \* the artifacts of the backups of a key, oldest first
    custom,      \* the same, of a cache_path other than the temporary directory
    restore      \* the restore_backup call: position, dest, result

diffVars  == <<pc, dirA, dirB, diff_index, tmpfiles, archive, target, target0,
               idx, patched, log, outcome>>
deltaVars == <<d_old, d_new, d_out>>
volVars   == <<writer, disk, reader>>
backupVars == <<cache, custom, restore>>
vars      == <<diffVars, deltaVars, volVars, backupVars>>

-----------------------------------------------------------------------------
(* Bounds of the model *)

\* Block size of the signatures (pyrsync's default is 4096; scaled down).
BlockSize == 2
\* Longest byte sequence the delta engine is run on.
MaxLen == 4
\* Modulus of the weak checksum (small, so that weak checksums collide).
WeakMod == 3
\* The volume size limit the writer is opened with.
VolumeSize == 2
\* Largest size of an entry given to add (one more than the limit: oversized).
MaxEntrySize == 3
\* Number of add calls on one writer.
MaxAdds == 3
\* Backups taken of a key.
MaxBackups == 3
\* Entries added to a writer before addDir is called on it.
MaxAddsBeforeDir == 0
\* Volumes of an archive a reader is opened on (volume numbers reach 10).
MaxVolumes == 11
\* Instants in the second (1000000 microseconds in the program; scaled down).
MicroBase == 2
\* The latest instant a backup is taken at.
MaxClock == 7

Byte == {1, 2}

Min(a, b) == IF a < b THEN a ELSE b

RECURSIVE SumSeq(_)
SumSeq(s) == IF s = <<>> THEN 0 ELSE Head(s) + SumSeq(Tail(s))

\* All the sequences over S of length at most n.
SeqsUpTo(S, n) == UNION {[1..k -> S] : k \in 0..n}

\* All the orders a set can be listed in (list(set(...)) fixes none).
Perms(S) == {s \in [1..Cardinality(S) -> S] :
                \A i, j \in 1..Cardinality(S) : s[i] = s[j] => i = j}

SeqToSet(s) == {s[i] : i \in 1..Len(s)}

-----------------------------------------------------------------------------
(* Initial values, and the values of the parts a specification does not use *)

\* The diff before DiffIndex.compute has filled it.
NoDiff == [dir_index |-> <<>>, deleted |-> <<>>, created |-> <<>>, updated |-> <<>>,
           deleted_dirs |-> <<>>, deltas |-> <<>>, hashdir |-> <<>>]

\* The empty directory.
EmptyTree == [dirs |-> {}, files |-> <<>>]

\* TarVolumeWriter.__init__
NewWriter ==
    [init         |-> FALSE,
     volumes      |-> <<>>,
     volume_index |-> <<>>,
     next_volume  |-> 0,       \* i of _volume_generator
     current      |-> 0,       \* the volume _tar and _archive are open on
     closed       |-> FALSE,
     error        |-> "none",
     adding_dir   |-> FALSE,   \* inside addDir
     walk         |-> <<>>,    \* what dir_instance.walk() has still to give
     dir_instance |-> EmptyTree]  \* the directory given to addDir

DiffIdle ==
    /\ pc = "idle"
    /\ dirA = EmptyTree
    /\ dirB = EmptyTree
    /\ diff_index = NoDiff
    /\ tmpfiles = <<>>
    /\ archive = <<>>
    /\ target = EmptyTree
    /\ target0 = EmptyTree
    /\ idx = 0
    /\ patched = <<>>
    /\ log = <<>>
    /\ outcome = [status |-> "none", value |-> "-"]

DeltaIdle == d_old = <<>> /\ d_new = <<>> /\ d_out = [ok |-> TRUE, data |-> <<>>, done |-> FALSE]

\* No call was made on a TarVolumeReader.
NoReader ==
    [op        |-> "none",
     member    |-> "-",
     volumes   |-> <<>>,    \* self.volumes
     pos       |-> 0,       \* position of extractall in self.volumes
     opened    |-> <<>>,    \* the volumes opened, in the order of opening
     extracted |-> <<>>,    \* the members extracted, in the order of extraction
     error     |-> "none"]

VolumeIdle == writer = NewWriter /\ disk = <<>> /\ reader = NoReader

\* No restore_backup call is in progress.
NoRestore == [pc |-> "idle", chain |-> <<>>, chain_error |-> "none", i |-> 0,
              dest |-> EmptyTree, cwd |-> "-", error |-> "none",
              applied |-> <<>>,   \* what log.info reported as restored
              cache_path |-> "-"] \* the cache_path argument

BackupIdle == cache = <<>> /\ custom = <<>> /\ restore = NoRestore

-----------------------------------------------------------------------------
(* Block signature and delta engine (pyrsync: blockchecksums, rsyncdelta,   *)
(* patchstream).  The library is not part of the sources; it is modelled    *)
(* from sections 4.1 and 4.2 of the specification.                          *)

NumBlocks(b) == (Len(b) + BlockSize - 1) \div BlockSize

\* Block i (1-based) of byte sequence b; the last block may be short.
Block(b, i) == SubSeq(b, (i - 1) * BlockSize + 1, Min(i * BlockSize, Len(b)))

\* Weak checksum: cheap and collision-prone.
Weak(blk) == SumSeq(blk) % WeakMod

\* Strong checksum: a digest without collisions, represented by what it digests.
Strong(blk) == <<"digest", blk>>

\* blockchecksums(f): the weak and the strong checksum lists of the blocks.
blockchecksums(b) ==
    << [i \in 1..NumBlocks(b) |-> Weak(Block(b, i))],
       [i \in 1..NumBlocks(b) |-> Strong(Block(b, i))] >>

\* The first old block (ascending index) whose weak checksum equals the
\* window's and whose strong checksum confirms it; 0 when there is none.
MatchBlock(w, sig) ==
    LET hits == {i \in 1..Len(sig[1]) : sig[1][i] = Weak(w) /\ sig[2][i] = Strong(w)}
    IN  IF hits = {} THEN 0 ELSE CHOOSE i \in hits : \A j \in hits : i <= j

Literal(lit) == IF lit = <<>> THEN <<>> ELSE << [op |-> "insert", data |-> lit] >>

\* rsyncdelta from position pos of the new stream, lit being the pending literal.
RECURSIVE DeltaFrom(_, _, _, _)
DeltaFrom(new, sig, pos, lit) ==
    IF pos > Len(new) THEN Literal(lit)
    ELSE LET w == SubSeq(new, pos, Min(pos + BlockSize - 1, Len(new)))
             m == MatchBlock(w, sig)
         IN  IF m # 0
             THEN Literal(lit) \o << [op |-> "copy", block |-> m] >>
                      \o DeltaFrom(new, sig, pos + Len(w), <<>>)
             ELSE DeltaFrom(new, sig, pos + 1, Append(lit, new[pos]))

\* rsyncdelta(datastream, remotesignatures)
rsyncdelta(new, sig) == DeltaFrom(new, sig, 1, <<>>)

\* patchstream(instream, outstream, delta): what reaches outstream.  A copy of a
\* block the old stream does not have is a CorruptDelta (ok = FALSE).
RECURSIVE patchstream(_, _)
patchstream(old, delta) ==
    IF delta = <<>> THEN [ok |-> TRUE, data |-> <<>>]
    ELSE LET e    == Head(delta)
             rest == patchstream(old, Tail(delta))
         IN  IF ~rest.ok THEN rest
             ELSE IF e.op = "insert" THEN [ok |-> TRUE, data |-> e.data \o rest.data]
             ELSE IF e.block > NumBlocks(old) THEN [ok |-> FALSE, data |-> <<>>]
             ELSE [ok |-> TRUE, data |-> Block(old, e.block) \o rest.data]

\* json.dumps / json.loads of a delta: the stored text and what is read back.
json_dumps(delta) == [json |-> delta]
json_loads(text) == text.json

-----------------------------------------------------------------------------
(* Directories.  A directory tree is the set of its subdirectories and the   *)
(* contents of its files, by relative path.                                  *)

Files == {"f1", "d/f2", "d/s/f3"}
Dirs  == {"d", "d/s"}

\* os.path.dirname of a relative path ("." is the root of the tree).
dirname(p) ==
    CASE p = "f1"     -> "."
      [] p = "d/f2"   -> "d"
      [] p = "d/s/f3" -> "d/s"
      [] p = "d/f4"   -> "d"
      [] p = "d/s"    -> "d"
      [] p = "d"      -> "."

\* The directories above p, nearest first, up to the root.
RECURSIVE Ancestors(_)
Ancestors(p) == IF dirname(p) = "." THEN {} ELSE {dirname(p)} \cup Ancestors(dirname(p))

\* File contents the trees are built from.
Contents == {<<>>, <<1, 2, 1>>, <<2, 1, 1>>}

WellFormed(t) ==
    /\ \A f \in DOMAIN t.files : Ancestors(f) \subseteq t.dirs
    /\ \A d \in t.dirs : Ancestors(d) \subseteq t.dirs

Trees ==
    {t \in [dirs : SUBSET Dirs,
            files : UNION {[S -> Contents] : S \in SUBSET Files}] : WellFormed(t)}

\* The entries (files and directories) directly or indirectly under directory d.
Under(t, d) == {p \in (DOMAIN t.files) \cup t.dirs : d \in Ancestors(p)}

\* The tree with file p holding content c (open(p, 'wb') and a write).
WriteFile(t, p, c) ==
    [t EXCEPT !.files = [q \in (DOMAIN t.files) \cup {p} |->
                            IF q = p THEN c ELSE t.files[q]]]

\* os.remove(p)
RemoveFile(t, p) ==
    [t EXCEPT !.files = [q \in (DOMAIN t.files) \ {p} |-> t.files[q]]]

\* os.makedirs(d): d and every missing directory above it.
makedirs(t, d) ==
    IF d = "." THEN t ELSE [t EXCEPT !.dirs = t.dirs \cup {d} \cup Ancestors(d)]

\* dirtools.Dir(path).hash(): the whole-tree hash, a digest of the files and
\* their contents (section 3 of the specification), without collisions.
DirHash(t) == [tree_hash |-> t.files]

-----------------------------------------------------------------------------
(* DirIndex and DiffIndex (src/incremental_backups_tools.py)                 *)

\* The directory a path names on disk.
Disk(name) == IF name = "dirA" THEN dirA ELSE dirB

\* DirIndex(dir).data(): directory, files, subdirs and the block checksums.
DirIndexData(name) ==
    [directory |-> name,
     files     |-> DOMAIN Disk(name).files,
     subdirs   |-> Disk(name).dirs,
     index     |-> [f \in DOMAIN Disk(name).files |->
                       blockchecksums(Disk(name).files[f])]]

DeletedSet_swapped(dir_index, cmp_index) == dir_index.files \ cmp_index.files

\* set(cmp_index['files']) - set(dir_index['files'])
DeletedSet(dir_index, cmp_index) == cmp_index.files \ dir_index.files

\* set(dir_index['files']) - set(cmp_index['files'])
CreatedSet(dir_index, cmp_index) == dir_index.files \ cmp_index.files

DeletedDirsSet_all(dir_index, cmp_index) == cmp_index.subdirs

\* set(cmp_index['subdirs']) - set(dir_index['subdirs'])
DeletedDirsSet(dir_index, cmp_index) == cmp_index.subdirs \ dir_index.subdirs

\* set(cmp_index['files']).intersection(set(dir_index['files']))
CommonSet(dir_index, cmp_index) == cmp_index.files \cap dir_index.files

\* The comparison without the casts: a tuple never equals a list.
IsUpdated_nocast(dir_index, cmp_index, f) == TRUE

\* The comparison of the weak checksums alone.
IsUpdated_weak(dir_index, cmp_index, f) == cmp_index.index[f][1] # dir_index.index[f][1]

\* list(cmp_index['index'][f]) != list(dir_index['index'][f])
IsUpdated(dir_index, cmp_index, f) == cmp_index.index[f] # dir_index.index[f]

\* The delta of the bytes of the file against the old block checksums, as it
\* is written to the temporary file: json.dumps(pyrsync.rsyncdelta(f_abs, ...)).
DeltaAgainst_own(bytes, old_checksums) ==
    json_dumps(rsyncdelta(bytes, blockchecksums(bytes)))

DeltaAgainst(bytes, old_checksums) == json_dumps(rsyncdelta(bytes, old_checksums))

\* The delta of the file as it is now in the compared directory, against the
\* old index.
ComputeDelta(dir_index, cmp_index, f) ==
    DeltaAgainst(Disk(dir_index.directory).files[f], cmp_index.index[f])

\* The files of the loop of compute, in iteration order, that end in 'updated'.
RECURSIVE UpdatedIn(_, _, _)
UpdatedIn(dir_index, cmp_index, common) ==
    IF common = <<>> THEN <<>>
    ELSE (IF IsUpdated(dir_index, cmp_index, Head(common))
          THEN <<Head(common)>> ELSE <<>>)
             \o UpdatedIn(dir_index, cmp_index, Tail(common))

\* The result of compute without the record of the first delta.
ComputeData_lost(dir_index, cmp_index, deleted, created, deleted_dirs, common) ==
    LET updated == UpdatedIn(dir_index, cmp_index, common)
    IN  [dir_index    |-> dir_index,
         deleted      |-> deleted,
         created      |-> created,
         updated      |-> updated,
         deleted_dirs |-> deleted_dirs,
         deltas       |-> [k \in 1..(Len(updated) - 1) |->
                              [path |-> updated[k + 1], delta_path |-> k]],
         hashdir      |-> DirHash(Disk(dir_index.directory))]

\* DiffIndex(dir_index, cmp_index).compute(), the sets being listed in the
\* orders given.  The k-th delta goes to the k-th temporary file.
ComputeData(dir_index, cmp_index, deleted, created, deleted_dirs, common) ==
    LET updated == UpdatedIn(dir_index, cmp_index, common)
    IN  [dir_index    |-> dir_index,
         deleted      |-> deleted,
         created      |-> created,
         updated      |-> updated,
         deleted_dirs |-> deleted_dirs,
         deltas       |-> [k \in 1..Len(updated) |->
                              [path |-> updated[k], delta_path |-> k]],
         hashdir      |-> DirHash(Disk(dir_index.directory))]

\* index1 = DirIndex(dir).data(); index2 = DirIndex(dir2).data();
\* diff_index = DiffIndex(index2, index1).compute()
Compute ==
    /\ pc = "start"
    /\ LET dir_index == DirIndexData("dirB")
           cmp_index == DirIndexData("dirA")
       IN  \E deleted \in Perms(DeletedSet(dir_index, cmp_index)),
              created \in Perms(CreatedSet(dir_index, cmp_index)),
              deleted_dirs \in Perms(DeletedDirsSet(dir_index, cmp_index)),
              common \in Perms(CommonSet(dir_index, cmp_index)) :
             /\ diff_index' = ComputeData(dir_index, cmp_index, deleted, created,
                                          deleted_dirs, common)
             /\ tmpfiles' = [k \in 1..Len(diff_index'.deltas) |->
                                ComputeDelta(dir_index, cmp_index,
                                             diff_index'.deltas[k].path)]
    /\ pc' = "diffed"
    /\ UNCHANGED <<dirA, dirB, archive, target, target0, idx, patched, log, outcome>>
    /\ UNCHANGED <<deltaVars, volVars, backupVars>>

-----------------------------------------------------------------------------
(* DiffData.create_archive                                                   *)

\* get_hash(val): the sha256 hex digest of the path.
get_hash(val) == <<"sha256", val>>

\* os.path.join('created/', filename), os.path.join('updated/', filename)
arcname(group, path) == <<group, get_hash(path)>>

\* The members added for the created files, from the compared directory.
CreatedMembers(di) ==
    [k \in 1..Len(di.created) |->
        [name |-> arcname("created", di.created[k]),
         data |-> Disk(di.dir_index.directory).files[di.created[k]]]]

\* No member is added for the deltas.
UpdatedMembers_none(di, tmp) == <<>>

\* The members added for the deltas, from their temporary files.
UpdatedMembers(di, tmp) ==
    [k \in 1..Len(di.deltas) |->
        [name |-> arcname("updated", di.deltas[k].path),
         data |-> tmp[di.deltas[k].delta_path]]]

\* DiffData(diff_index).create_archive(archive_path)
CreateArchive ==
    /\ pc = "diffed"
    /\ archive' = CreatedMembers(diff_index) \o UpdatedMembers(diff_index, tmpfiles)
    /\ tmpfiles' = <<>>
    /\ pc' = "packed"
    /\ UNCHANGED <<dirA, dirB, diff_index, target, target0, idx, patched, log, outcome>>
    /\ UNCHANGED <<deltaVars, volVars, backupVars>>

\* The archive loses one of its members before it is applied.
CorruptArchive ==
    /\ pc = "packed"
    /\ \E k \in 1..Len(archive) :
          archive' = SubSeq(archive, 1, k - 1) \o SubSeq(archive, k + 1, Len(archive))
    /\ UNCHANGED <<pc, dirA, dirB, diff_index, tmpfiles, target, target0, idx,
                   patched, log, outcome>>
    /\ UNCHANGED <<deltaVars, volVars, backupVars>>

-----------------------------------------------------------------------------
(* apply_diff(base_path, diff_index, diff_archive)                           *)

\* tar.getmember(name) finds a member (else it raises KeyError).
HasMember(ar, name) == \E k \in 1..Len(ar) : ar[k].name = name

\* tar.extractfile(name).read(): the last member of that name.
MemberData(ar, name) ==
    LET ks == {k \in 1..Len(ar) : ar[k].name = name}
    IN  ar[CHOOSE k \in ks : \A j \in ks : j <= k].data

\* The list each loop of apply_diff goes through.
LoopList(di, loop) ==
    CASE loop = "updated"      -> di.updated
      [] loop = "created"      -> di.created
      [] loop = "deleted"      -> di.deleted
      [] loop = "deleted_dirs" -> di.deleted_dirs

NextLoop(loop) ==
    CASE loop = "updated"      -> "created"
      [] loop = "created"      -> "deleted"
      [] loop = "deleted"      -> "deleted_dirs"
      [] loop = "deleted_dirs" -> "check"

\* Where control is once item i of a loop is reached: at that item, or at the
\* first item of the next loop that has one, or at the integrity check.
RECURSIVE Settle(_, _, _)
Settle(di, loop, i) ==
    IF loop = "check" THEN <<"check", 0>>
    ELSE IF i <= Len(LoopList(di, loop)) THEN <<loop, i>>
    ELSE Settle(di, NextLoop(loop), 1)

\* Control moves on to item i of a loop.
Goto(loop, i) ==
    /\ pc' = Settle(diff_index, loop, i)[1]
    /\ idx' = Settle(diff_index, loop, i)[2]

\* The directories apply_diff may be pointed at: the original directory, or
\* the original directory with its top-level file changed, added or removed.
Targets(t) == {t, RemoveFile(t, "f1")} \cup {WriteFile(t, "f1", c) : c \in Contents}

Running  == [status |-> "running", value |-> "-"]
Returned(v) == [status |-> "returned", value |-> v]
Raised(e)   == [status |-> "raised", value |-> e]

\* tar = tarfile.open(diff_archive, mode='r:gz')
ApplyOpen ==
    /\ pc = "packed"
    /\ \E t \in Targets(dirA) :
          /\ target' = t
          /\ target0' = t
    /\ Goto("updated", 1)
    /\ outcome' = Running
    /\ UNCHANGED <<dirA, dirB, diff_index, tmpfiles, archive, patched, log>>
    /\ UNCHANGED <<deltaVars, volVars, backupVars>>

\* except KeyError: log.exception(exc); raise Exception("DIFF CORRUPTED")
MissingMember(member) ==
    /\ log' = Append(log, [level |-> "exception", about |-> member])
    /\ outcome' = Raised("Exception: DIFF CORRUPTED")
    /\ pc' = "raised"

\* An exception the loop does not catch leaves apply_diff.
Propagate(e) ==
    /\ outcome' = Raised(e)
    /\ pc' = "raised"
    /\ UNCHANGED log

\* The current file patched with the delta read from the archive member.
PatchFile(current, memberdata) == patchstream(current, json_loads(memberdata))

\* for updtd in diff_index['updated']: the delta is read from the archive and
\* the current file is patched into a temporary file.
ApplyUpdatedPatch ==
    /\ pc = "updated"
    /\ LET updtd  == diff_index.updated[idx]
           member == arcname("updated", updtd)
       IN  IF ~HasMember(archive, member)
           THEN MissingMember(member) /\ UNCHANGED <<idx, patched>>
           ELSE IF updtd \notin DOMAIN target.files
           THEN Propagate("IOError") /\ UNCHANGED <<idx, patched>>
           ELSE LET r == PatchFile(target.files[updtd], MemberData(archive, member))
                IN  IF ~r.ok
                    THEN Propagate("CorruptDelta") /\ UNCHANGED <<idx, patched>>
                    ELSE /\ patched' = r.data
                         /\ pc' = "replace"
                         /\ UNCHANGED <<idx, log, outcome>>
    /\ UNCHANGED <<dirA, dirB, diff_index, tmpfiles, archive, target, target0>>
    /\ UNCHANGED <<deltaVars, volVars, backupVars>>

\* with open(abspath, 'wb') as f: the original is opened for writing, which
\* empties it.
ApplyUpdatedOpen ==
    /\ pc = "replace"
    /\ target' = WriteFile(target, diff_index.updated[idx], <<>>)
    /\ pc' = "copy"
    /\ UNCHANGED <<dirA, dirB, diff_index, tmpfiles, archive, target0, idx, patched,
                   log, outcome>>
    /\ UNCHANGED <<deltaVars, volVars, backupVars>>

\* shutil.copyfileobj(patched, f); patched.close()
ApplyUpdatedCopy ==
    /\ pc = "copy"
    /\ target' = WriteFile(target, diff_index.updated[idx], patched)
    /\ patched' = <<>>
    /\ Goto("updated", idx + 1)
    /\ UNCHANGED <<dirA, dirB, diff_index, tmpfiles, archive, target0, log, outcome>>
    /\ UNCHANGED <<deltaVars, volVars, backupVars>>

\* The created file copied from the archive to its destination, the missing
\* directories above it being made first.
CreateFile(t, crtd, data) ==
    WriteFile(IF dirname(crtd) = "." \/ dirname(crtd) \in t.dirs
              THEN t ELSE makedirs(t, dirname(crtd)),
              crtd, data)

\* for crtd in diff_index['created']
ApplyCreated ==
    /\ pc = "created"
    /\ LET crtd   == diff_index.created[idx]
           member == arcname("created", crtd)
       IN  IF ~HasMember(archive, member)
           THEN MissingMember(member) /\ UNCHANGED <<idx, target>>
           ELSE /\ target' = CreateFile(target, crtd, MemberData(archive, member))
                /\ Goto("created", idx + 1)
                /\ UNCHANGED <<log, outcome>>
    /\ UNCHANGED <<dirA, dirB, diff_index, tmpfiles, archive, target0, patched>>
    /\ UNCHANGED <<deltaVars, volVars, backupVars>>

DeleteFile_kept(t, dltd) == t

\* if os.path.isfile(abspath): os.remove(abspath)
DeleteFile(t, dltd) == IF dltd \in DOMAIN t.files THEN RemoveFile(t, dltd) ELSE t

\* for dltd in diff_index['deleted']
ApplyDeleted ==
    /\ pc = "deleted"
    /\ target' = DeleteFile(target, diff_index.deleted[idx])
    /\ Goto("deleted", idx + 1)
    /\ UNCHANGED <<dirA, dirB, diff_index, tmpfiles, archive, target0, patched,
                   log, outcome>>
    /\ UNCHANGED <<deltaVars, volVars, backupVars>>

\* for dltd_drs in diff_index['deleted_dirs']: if os.path.isdir(abspath):
\* os.rmdir(abspath), which raises OSError on a directory that is not empty.
ApplyDeletedDir ==
    /\ pc = "deleted_dirs"
    /\ LET dltd_drs == diff_index.deleted_dirs[idx]
       IN  IF dltd_drs \notin target.dirs
           THEN /\ Goto("deleted_dirs", idx + 1)
                /\ UNCHANGED <<target, log, outcome>>
           ELSE IF Under(target, dltd_drs) # {}
           THEN Propagate("OSError") /\ UNCHANGED <<idx, target>>
           ELSE /\ target' = [target EXCEPT !.dirs = @ \ {dltd_drs}]
                /\ Goto("deleted_dirs", idx + 1)
                /\ UNCHANGED <<log, outcome>>
    /\ UNCHANGED <<dirA, dirB, diff_index, tmpfiles, archive, target0, patched>>
    /\ UNCHANGED <<deltaVars, volVars, backupVars>>

\* What the integrity check does on a hash mismatch: the AssertionError is
\* caught and log.error("Diff integrity check failed.") is all that happens.
IntegrityCheck(actual, expected, lg) ==
    IF actual = expected THEN lg
    ELSE Append(lg, [level |-> "error", about |-> "Diff integrity check failed."])

\* tar.close(); the integrity check; apply_diff returns (None).
ApplyCheck ==
    /\ pc = "check"
    /\ log' = IntegrityCheck(DirHash(target), diff_index.hashdir, log)
    /\ outcome' = Returned("None")
    /\ pc' = "done"
    /\ UNCHANGED <<dirA, dirB, diff_index, tmpfiles, archive, target, target0, idx,
                   patched>>
    /\ UNCHANGED <<deltaVars, volVars, backupVars>>

-----------------------------------------------------------------------------
(* The pipeline: two directories are indexed and diffed, the diff is packed  *)
(* and applied.                                                              *)

Init ==
    /\ pc = "start"
    /\ dirA \in Trees
    /\ dirB \in Trees
    /\ diff_index = NoDiff
    /\ tmpfiles = <<>>
    /\ archive = <<>>
    /\ target = EmptyTree
    /\ target0 = EmptyTree
    /\ idx = 0
    /\ patched = <<>>
    /\ log = <<>>
    /\ outcome = [status |-> "none", value |-> "-"]
    /\ DeltaIdle
    /\ VolumeIdle
    /\ BackupIdle

Next ==
    \/ Compute
    \/ CreateArchive
    \/ CorruptArchive
    \/ ApplyOpen
    \/ ApplyUpdatedPatch
    \/ ApplyUpdatedOpen
    \/ ApplyUpdatedCopy
    \/ ApplyCreated
    \/ ApplyDeleted
    \/ ApplyDeletedDir
    \/ ApplyCheck

Spec == Init /\ [][Next]_vars

-----------------------------------------------------------------------------
(* The delta round trip alone, on every pair of short byte sequences: the    *)
(* old file is indexed, the new file is diffed against that index as         *)
(* DiffIndex.compute does, and the old file is patched as apply_diff does.   *)

InitDelta ==
    /\ DiffIdle
    /\ VolumeIdle
    /\ BackupIdle
    /\ d_old \in SeqsUpTo(Byte, MaxLen)
    /\ d_new \in SeqsUpTo(Byte, MaxLen)
    /\ d_out = [ok |-> TRUE, data |-> <<>>, done |-> FALSE]

DeltaPatch ==
    /\ ~d_out.done
    /\ LET r == PatchFile(d_old, DeltaAgainst(d_new, blockchecksums(d_old)))
       IN  d_out' = [ok |-> r.ok, data |-> r.data, done |-> TRUE]
    /\ UNCHANGED <<d_old, d_new>>
    /\ UNCHANGED <<diffVars, volVars, backupVars>>

NextDelta == DeltaPatch

SpecDelta == InitDelta /\ [][NextDelta]_vars

-----------------------------------------------------------------------------
(* Properties of the diff / pack / apply pipeline (checked under Spec)       *)

Computed == pc \notin {"start", "idle"}
Finished == pc \in {"done", "raised"}

FilesOf(t) == DOMAIN t.files

\* The updated and created paths the archive holds no member for.
Missing ==
    {f \in SeqToSet(diff_index.updated) :
        ~HasMember(archive, arcname("updated", f))}
    \cup {f \in SeqToSet(diff_index.created) :
        ~HasMember(archive, arcname("created", f))}

\* The archive members the log holds an exception about.
LoggedMembers == {log[k].about : k \in {j \in 1..Len(log) : log[j].level = "exception"}}

C4_CreatedDeletedSets ==
    Computed =>
        /\ SeqToSet(diff_index.created) = FilesOf(dirB) \ FilesOf(dirA)
        /\ SeqToSet(diff_index.deleted) = FilesOf(dirA) \ FilesOf(dirB)
        /\ SeqToSet(diff_index.deleted_dirs) = dirA.dirs \ dirB.dirs

C4_Witness ==
    /\ pc = "diffed"
    /\ diff_index.created # <<>> /\ diff_index.deleted # <<>>
    /\ diff_index.deleted_dirs # <<>>
    /\ dirB.dirs # {}

\* C5: a path is in updated if and only if it is in both snapshots and its
\* block signature (weak and strong checksum lists) differs between them.
C5_UpdatedIffSignatureDiffers ==
    Computed =>
        SeqToSet(diff_index.updated) =
            {f \in FilesOf(dirA) \cap FilesOf(dirB) :
                blockchecksums(dirA.files[f]) # blockchecksums(dirB.files[f])}

C5_Witness ==
    /\ pc = "diffed"
    /\ diff_index.updated # <<>>
    /\ \E f \in FilesOf(dirA) \cap FilesOf(dirB) : f \notin SeqToSet(diff_index.updated)
    /\ \E f \in SeqToSet(diff_index.updated) :
          blockchecksums(dirA.files[f])[1] = blockchecksums(dirB.files[f])[1]

\* C6: the diff of two snapshots of identical trees has empty created,
\* deleted, updated, deleted_dirs and deltas.
C6_IdenticalTreesEmptyDiff ==
    (Computed /\ dirA = dirB) =>
        /\ diff_index.created = <<>> /\ diff_index.deleted = <<>>
        /\ diff_index.updated = <<>> /\ diff_index.deleted_dirs = <<>>
        /\ diff_index.deltas = <<>>

C6_Witness ==
    /\ pc = "diffed" /\ dirA = dirB
    /\ Cardinality(FilesOf(dirA)) >= 2 /\ dirA.dirs # {}

\* C7: in every result of DiffIndex.compute, created and deleted are disjoint
\* and updated is a subset of the files of both snapshots.
C7_SetInvariants ==
    Computed =>
        /\ SeqToSet(diff_index.created) \cap SeqToSet(diff_index.deleted) = {}
        /\ SeqToSet(diff_index.updated) \subseteq FilesOf(dirB) \cap FilesOf(dirA)

C7_Witness ==
    /\ pc = "diffed"
    /\ diff_index.created # <<>> /\ diff_index.deleted # <<>>
    /\ diff_index.updated # <<>>

\* C8: when the archive lacks the member of an updated or created path,
\* apply_diff records the failure for that path and still goes through every
\* other updated, created and deleted path and every deleted directory.
C8_ContinueOnError ==
    (Finished /\ target0 = dirA /\ Missing # {}) =>
        /\ \A f \in (SeqToSet(diff_index.updated) \cup SeqToSet(diff_index.created))
                        \ Missing :
              f \in FilesOf(target) /\ target.files[f] = dirB.files[f]
        /\ \A f \in SeqToSet(diff_index.deleted) : f \notin FilesOf(target)
        /\ \A d \in SeqToSet(diff_index.deleted_dirs) :
              d \notin target.dirs \/ Under(target, d) # {}
        /\ \A f \in Missing :
              \/ arcname("updated", f) \in LoggedMembers
              \/ arcname("created", f) \in LoggedMembers

\* C9: when the tree hash recomputed after all the steps differs from the
\* hash the diff expects, the caller of apply_diff is told so (by the value
\* returned or by an exception), not only the log.
C9_IntegritySurfaced ==
    (pc = "done" /\ DirHash(target) # diff_index.hashdir) =>
        outcome # Returned("None")

\* C19: while apply_diff replaces an updated file, the file in the target
\* directory holds at every step either all of its old contents or all of
\* its patched contents, never an emptied or partly written file.
C19_AtomicReplace ==
    pc \in {"replace", "copy"} =>
        LET updtd == diff_index.updated[idx]
        IN  /\ updtd \in FilesOf(target)
            /\ target.files[updtd] \in {target0.files[updtd], patched}

\* What applying one deleted path does, when the path is absent from the
\* target and when it is there.
DeletedStep ==
    pc = "deleted" =>
        LET dltd == diff_index.deleted[idx]
        IN  /\ pc' # "raised"
            /\ outcome' = outcome
            /\ log' = log
            /\ target'.dirs = target.dirs
            /\ \A f \in FilesOf(target) \ {dltd} :
                  f \in FilesOf(target') /\ target'.files[f] = target.files[f]
            /\ dltd \notin FilesOf(target')
            /\ dltd \notin FilesOf(target) => target' = target

\* C20: for each deleted path apply_diff removes the file if it is there; a
\* deleted path already absent from the target raises nothing and changes
\* nothing else.
C20_DeletedIdempotent == [][DeletedStep]_vars

C20_Witness ==
    /\ pc \in {"deleted_dirs", "check", "done"}
    /\ \E k \in 1..Len(diff_index.deleted) :
          diff_index.deleted[k] \notin FilesOf(target0)
    /\ \E k \in 1..Len(diff_index.deleted) :
          diff_index.deleted[k] \in FilesOf(target0)

\* What applying one deleted_dirs entry does: a directory that is there and
\* empty is removed, and nothing else changes; one that is absent or still
\* holds entries is left, and apply_diff goes on to the next entry.
DeletedDirStep ==
    pc = "deleted_dirs" =>
        LET dltd_drs == diff_index.deleted_dirs[idx]
        IN  /\ pc' # "raised"
            /\ outcome' = outcome
            /\ target'.files = target.files
            /\ target'.dirs =
                  (IF dltd_drs \in target.dirs /\ Under(target, dltd_drs) = {}
                   THEN target.dirs \ {dltd_drs} ELSE target.dirs)
            /\ <<pc', idx'>> = Settle(diff_index, "deleted_dirs", idx + 1)

\* C21: for each deleted_dirs entry apply_diff removes the directory only if
\* it is there and empty; a directory that still holds entries does not make
\* apply_diff raise, and the remaining entries and the integrity check follow.
C21_DeletedDirsNotFatal == [][DeletedDirStep]_vars

\* C27: when deleted_dirs holds a directory and one of its subdirectories
\* (the files beneath them being in deleted), apply_diff removes both and
\* ends without raising, in whatever order the two entries are listed.
C27_NestedDirsRemoved ==
    (/\ Finished
     /\ target0 = dirA
     /\ Missing = {}
     /\ {"d", "d/s"} \subseteq SeqToSet(diff_index.deleted_dirs)) =>
        /\ pc = "done"
        /\ target.dirs \cap {"d", "d/s"} = {}

\* The number of members of an archive that have the given name.
MembersNamed(ar, name) == Cardinality({k \in 1..Len(ar) : ar[k].name = name})

\* What create_archive leaves: one member for each created path and one for
\* each updated path, no other member, and no delta temporary file.
PackStep ==
    (pc = "diffed" /\ pc' = "packed") =>
        /\ \A f \in SeqToSet(diff_index.created) :
              MembersNamed(archive', arcname("created", f)) = 1
        /\ \A f \in SeqToSet(diff_index.updated) :
              MembersNamed(archive', arcname("updated", f)) = 1
        /\ Len(archive') = Len(diff_index.created) + Len(diff_index.updated)
        /\ Len(tmpfiles) = Len(diff_index.updated)
        /\ tmpfiles' = <<>>

C30_DeltasMatchUpdated ==
    Computed =>
        /\ \A f \in SeqToSet(diff_index.updated) :
              Cardinality({k \in 1..Len(diff_index.deltas) :
                              diff_index.deltas[k].path = f}) = 1
        /\ \A k \in 1..Len(diff_index.deltas) :
              diff_index.deltas[k].path \in SeqToSet(diff_index.updated)
        /\ SeqToSet(diff_index.updated) \cap SeqToSet(diff_index.created) = {}
        /\ SeqToSet(diff_index.updated) \cap SeqToSet(diff_index.deleted) = {}

C30_Witness ==
    /\ pc = "diffed"
    /\ Len(diff_index.updated) >= 2
    /\ Len(diff_index.deltas) >= 2
    /\ diff_index.created # <<>>

-----------------------------------------------------------------------------
(* Property of the delta round trip (checked under SpecDelta)                *)

-----------------------------------------------------------------------------
(* TarVolumeWriter (src/incremental_backups_tools/tarvolume.py)              *)

\* Names entries are added under.
EntryNames == {"a", "b"}

\* A volume file just opened by _volume_generator.
NewVolume == [members |-> <<>>, st_size |-> 0, open |-> TRUE]

\* The bytes of the entries written to a volume.
RECURSIVE TotalSize(_)
TotalSize(members) ==
    IF members = <<>> THEN 0 ELSE Head(members).size + TotalSize(Tail(members))

\* The generator without its i += 1: the same volume file is opened again.
OpenNext_same(w, dk) ==
    [writer |-> [w EXCEPT !.volumes = Append(@, w.next_volume),
                          !.current = w.next_volume,
                          !.next_volume = IF @ = 0 THEN 1 ELSE @,
                          !.init = TRUE],
     disk   |-> [v \in (DOMAIN dk) \cup {w.next_volume} |->
                    IF v = w.next_volume THEN NewVolume ELSE dk[v]]]

\* volume_generator.next() and self.volumes.append(self._archive.name)
OpenNext(w, dk) ==
    [writer |-> [w EXCEPT !.volumes = Append(@, w.next_volume),
                          !.current = w.next_volume,
                          !.next_volume = @ + 1,
                          !.init = TRUE],
     disk   |-> [v \in (DOMAIN dk) \cup {w.next_volume} |->
                    IF v = w.next_volume THEN NewVolume ELSE dk[v]]]

\* The volume left open, as if it were not closed.
CloseVolume_open(dk, v) == dk

\* self._tar.close(), self._archive.close(): everything written reaches the file.
CloseVolume(dk, v) ==
    [dk EXCEPT ![v] = [@ EXCEPT !.open = FALSE, !.st_size = TotalSize(dk[v].members)]]

\* _init_archive()
InitArchive(w, dk) ==
    IF ~w.init THEN OpenNext(w, dk) ELSE [writer |-> w, disk |-> dk]

\* _archive_size(): os.fstat(self._archive.fileno()).st_size
ArchiveSize(w, dk) == dk[w.current].st_size

\* The rollover made whatever the size of the current volume.
CheckSize_always(w, dk, size) ==
    IF size > VolumeSize
    THEN OpenNext(w, CloseVolume(dk, w.current))
    ELSE [writer |-> w, disk |-> dk]

\* _check_size(size)
CheckSize(w, dk, size) ==
    IF ArchiveSize(w, dk) # 0 /\ size > VolumeSize
    THEN OpenNext(w, CloseVolume(dk, w.current))
    ELSE [writer |-> w, disk |-> dk]

\* The index left as it is: the entry is not recorded.
IndexAdd_none(index, name, v) == index

\* self.volume_index[arcname].add(os.path.basename(self._archive.name))
IndexAdd(index, name, v) ==
    [n \in (DOMAIN index) \cup {name} |->
        IF n = name
        THEN (IF n \in DOMAIN index THEN index[n] ELSE {}) \cup {v}
        ELSE index[n]]

\* The sizes fstat may report for a volume being written after an entry is
\* added to it: the bytes of the gzip stream that have reached the file, which
\* compression and the buffers keep between what was there and what was added.
SizesOnDisk(before, members) == before .. TotalSize(members)

\* The number of entries written so far, over all the volumes.
RECURSIVE EntriesBelow(_, _)
EntriesBelow(dk, n) ==
    IF n = 0 THEN 0 ELSE Len(dk[n - 1].members) + EntriesBelow(dk, n - 1)

TotalAdds == EntriesBelow(disk, writer.next_volume)

\* add(name, arcname): the entry of the given size is added.
Add(name, size) ==
    /\ ~writer.closed /\ writer.error = "none" /\ ~writer.adding_dir
    /\ TotalAdds < MaxAdds
    /\ LET a == InitArchive(writer, disk)
           total_size == ArchiveSize(a.writer, a.disk) + size
           c == CheckSize(a.writer, a.disk, total_size)
           v == c.writer.current
           members == Append(c.disk[v].members, [name |-> name, size |-> size])
       IN  /\ \E onDisk \in SizesOnDisk(c.disk[v].st_size, members) :
                disk' = [c.disk EXCEPT ![v] = [@ EXCEPT !.members = members,
                                                         !.st_size = onDisk]]
           /\ writer' = [c.writer EXCEPT
                            !.volume_index = IndexAdd(@, name, v)]
    /\ UNCHANGED <<reader, diffVars, deltaVars, backupVars>>

\* The volume index as close() leaves it: a dict of lists, each list(v) being
\* the set of volumes of a name in some order.
Listed(index) ==
    {f \in [DOMAIN index -> UNION {Perms(index[n]) : n \in DOMAIN index}] :
        \A n \in DOMAIN index : f[n] \in Perms(index[n])}

\* close(): called before any volume was opened, self._tar does not exist.
Close ==
    /\ ~writer.closed /\ writer.error = "none" /\ ~writer.adding_dir
    /\ IF ~writer.init
       THEN /\ writer' = [writer EXCEPT !.error = "AttributeError"]
            /\ UNCHANGED disk
       ELSE /\ disk' = CloseVolume(disk, writer.current)
            /\ \E listed \in Listed(writer.volume_index) :
                  writer' = [writer EXCEPT !.closed = TRUE, !.volume_index = listed]
    /\ UNCHANGED <<reader, diffVars, deltaVars, backupVars>>

\* The directories given to addDir: a file at the top and two in a
\* sub-directory, of a size below the volume size limit or above it.
DirFiles == {"f1", "d/f2", "d/f4"}
DirContents == {<<1>>, <<1, 2, 1>>}
DirTrees ==
    {t \in [dirs : SUBSET {"d"},
            files : UNION {[S -> DirContents] : S \in SUBSET DirFiles}] : WellFormed(t)}

\* os.path.relpath(absname, dir_instance.parent): the name of a file in the
\* archive starts with the name of the directory added.
relpath_parent(f) ==
    CASE f = "f1"   -> "top/f1"
      [] f = "d/f2" -> "top/d/f2"
      [] f = "d/f4" -> "top/d/f4"

\* dir_instance.walk(): the files of each directory, the top directory
\* first; the files of one directory come in the order the listing gives.
Walks(t) ==
    {top \o sub :
        top \in Perms({f \in DOMAIN t.files : dirname(f) = "."}),
        sub \in Perms({f \in DOMAIN t.files : dirname(f) = "d"})}

\* addDir(dir_instance): _init_archive(), and the walk begins.
AddDirStart(t) ==
    /\ ~writer.closed /\ writer.error = "none" /\ ~writer.adding_dir
    /\ TotalAdds <= MaxAddsBeforeDir
    /\ LET a == InitArchive(writer, disk)
       IN  /\ \E w \in Walks(t) :
                writer' = [a.writer EXCEPT
                              !.adding_dir = TRUE,
                              !.dir_instance = t,
                              !.walk = [k \in 1..Len(w) |->
                                           [cdir |-> dirname(w[k]),
                                            arcname |-> relpath_parent(w[k]),
                                            size |-> Len(t.files[w[k]]),
                                            data |-> t.files[w[k]]]]]
           /\ disk' = a.disk
    /\ UNCHANGED <<reader, diffVars, deltaVars, backupVars>>

\* addDir: the body of "for f in files" for the next file of the walk.
AddDirFile ==
    /\ writer.adding_dir /\ writer.walk # <<>>
    /\ LET f == Head(writer.walk)
           v0 == writer.current
           \* the directory is added if it is not in the index yet
           dir_added == f.cdir # "." /\ f.cdir \notin DOMAIN writer.volume_index
           disk1 == IF dir_added
                    THEN [disk EXCEPT ![v0].members =
                             Append(@, [name |-> f.cdir, size |-> 0,
                                        isdir |-> TRUE, data |-> <<>>])]
                    ELSE disk
           index1 == IF f.cdir # "."
                     THEN IndexAdd(writer.volume_index, f.cdir, v0)
                     ELSE writer.volume_index
           w1 == [writer EXCEPT !.volume_index = index1, !.walk = Tail(@)]
           total_size == ArchiveSize(w1, disk1) + f.size
           c == CheckSize(w1, disk1, total_size)
           v == c.writer.current
           members == Append(c.disk[v].members,
                             [name |-> f.arcname, size |-> f.size,
                              isdir |-> FALSE, data |-> f.data])
       IN  /\ \E onDisk \in SizesOnDisk(c.disk[v].st_size, members) :
                disk' = [c.disk EXCEPT ![v] = [@ EXCEPT !.members = members,
                                                         !.st_size = onDisk]]
           /\ writer' = [c.writer EXCEPT
                            !.volume_index = IndexAdd(@, f.arcname, v)]
    /\ UNCHANGED <<reader, diffVars, deltaVars, backupVars>>

\* addDir: the walk is over, self.close(), the volumes and the index are
\* returned.
AddDirClose ==
    /\ writer.adding_dir /\ writer.walk = <<>>
    /\ disk' = CloseVolume(disk, writer.current)
    /\ \E listed \in Listed(writer.volume_index) :
          writer' = [writer EXCEPT !.closed = TRUE, !.adding_dir = FALSE,
                                   !.volume_index = listed]
    /\ UNCHANGED <<reader, diffVars, deltaVars, backupVars>>

-----------------------------------------------------------------------------
(* TarVolumeReader (src/incremental_backups_tools/tarvolume.py)              *)

\* TarVolumeReader.__init__: the reader is given the volume index the writer
\* returned.
ReaderIndex == writer.volume_index

\* The names members are asked by: those of the index, and one that is not
\* in it.
MemberNames == (DOMAIN ReaderIndex) \cup {"missing"}

\* tar.getmember(member) finds the member in volume v.
HasTarMember(dk, v, member) ==
    \E k \in 1..Len(dk[v].members) : dk[v].members[k].name = member

\* extract: for volume in self.volume_index[member]; getmember raises KeyError.
RECURSIVE ExtractLoop(_, _, _, _)
ExtractLoop(r, dk, member, vols) ==
    IF vols = <<>> THEN r
    ELSE LET volume == Head(vols)
             opened == Append(r.opened, volume)
         IN  IF ~HasTarMember(dk, volume, member)
             THEN [r EXCEPT !.opened = opened, !.error = "KeyError"]
             ELSE ExtractLoop(
                      [r EXCEPT !.opened = opened,
                                !.extracted = Append(@, [volume |-> volume,
                                                         name |-> member])],
                      dk, member, Tail(vols))

\* A call on a reader made over the volumes and the index the writer returned.
NewCall(op, member) ==
    [NoReader EXCEPT !.op = op, !.member = member, !.volumes = writer.volumes]

\* TarVolumeReader.extract(member, path)
Extract(member) ==
    /\ writer.closed /\ reader.op = "none"
    /\ reader' =
          IF member \in DOMAIN ReaderIndex
          THEN ExtractLoop(NewCall("extract", member), disk, member,
                           ReaderIndex[member])
          ELSE [NewCall("extract", member) EXCEPT
                   !.error = "IOError: Member not found in the volume."]
    /\ UNCHANGED <<writer, disk, diffVars, deltaVars, backupVars>>

\* TarVolumeReader.extractfile(member)
ExtractFile(member) ==
    /\ writer.closed /\ reader.op = "none"
    /\ reader' =
          IF member \in DOMAIN ReaderIndex
          THEN ExtractLoop(NewCall("extractfile", member), disk, member,
                           << ReaderIndex[member][1] >>)
          ELSE [NewCall("extractfile", member) EXCEPT
                   !.error = "IOError: Member not found in the volume."]
    /\ UNCHANGED <<writer, disk, diffVars, deltaVars, backupVars>>

\* The file name of volume i, '{archive_key}.vol{i}.tgz', from the number on:
\* the character codes of the decimal digits of i and of the dot after them.
VolumeName(i) ==
    (IF i >= 10 THEN << 48 + (i \div 10) >> ELSE <<>>) \o << 48 + (i % 10), 46 >>

\* Comparison of two strings, character by character.
RECURSIVE StrLess(_, _)
StrLess(a, b) ==
    IF b = <<>> THEN FALSE
    ELSE IF a = <<>> THEN TRUE
    ELSE IF Head(a) # Head(b) THEN Head(a) < Head(b)
    ELSE StrLess(Tail(a), Tail(b))

\* list(self.dir_path.files(glob)): the volumes found in the archive
\* directory, sorted by file name.
RECURSIVE FilesByName(_)
FilesByName(S) ==
    IF S = {} THEN <<>>
    ELSE LET first == CHOOSE x \in S :
                         \A y \in S \ {x} : StrLess(VolumeName(x), VolumeName(y))
         IN  << first >> \o FilesByName(S \ {first})

\* TarVolumeReader(archive_dir, archive_key, volumes, volume_index): the
\* list of volumes is the one passed in, or the one found by the key.
OpenReader(discover) ==
    /\ reader.op = "none"
    /\ writer.closed
    /\ reader' = [NoReader EXCEPT
                     !.op = "open",
                     !.volumes = IF discover THEN FilesByName(DOMAIN disk)
                                 ELSE writer.volumes]
    /\ UNCHANGED <<writer, disk, diffVars, deltaVars, backupVars>>

\* The first member of a volume alone.
ExtractedFrom_first(dk, v) ==
    [k \in 1..Min(1, Len(dk[v].members)) |->
        [volume |-> v, name |-> dk[v].members[k].name]]

\* The members of a volume, as extractall has extracted them.
ExtractedFrom(dk, v) ==
    [k \in 1..Len(dk[v].members) |-> [volume |-> v, name |-> dk[v].members[k].name]]

\* extractall(path): the body of "for v in self.volumes" on the next volume.
ExtractAllVolume ==
    /\ reader.op \in {"open", "extractall"}
    /\ reader.pos < Len(reader.volumes)
    /\ LET v == reader.volumes[reader.pos + 1]
       IN  reader' = [reader EXCEPT
                         !.op = "extractall",
                         !.pos = @ + 1,
                         !.opened = Append(@, v),
                         !.extracted = @ \o ExtractedFrom(disk, v)]
    /\ UNCHANGED <<writer, disk, diffVars, deltaVars, backupVars>>

\* extractall(path): the loop is over.
ExtractAllReturn ==
    /\ reader.op \in {"open", "extractall"}
    /\ reader.pos = Len(reader.volumes)
    /\ reader' = [reader EXCEPT !.op = "extracted"]
    /\ UNCHANGED <<writer, disk, diffVars, deltaVars, backupVars>>

\* What a writer leaves after n adds of the given names, each entry larger
\* than the volume size limit and flushed to its volume: one volume for each.
WrittenVolumes(names) ==
    [v \in 0..(Len(names) - 1) |->
        [members |-> << [name |-> names[v + 1], size |-> VolumeSize + 1] >>,
         st_size |-> VolumeSize + 1,
         open    |-> FALSE]]

\* The volumes recorded for a name, as a list.
RECURSIVE FilesIn(_, _)
FilesIn(names, n) ==
    IF names = <<>> THEN <<>>
    ELSE FilesIn(SubSeq(names, 1, Len(names) - 1), n)
         \o (IF names[Len(names)] = n THEN << Len(names) - 1 >> ELSE <<>>)

WriterAfter(names) ==
    [NewWriter EXCEPT
        !.init = TRUE,
        !.volumes = [k \in 1..Len(names) |-> k - 1],
        !.volume_index = [n \in SeqToSet(names) |->
                             FilesIn(names, n)],
        !.next_volume = Len(names),
        !.current = Len(names) - 1,
        !.closed = TRUE]

InitReader ==
    /\ DiffIdle
    /\ DeltaIdle
    /\ BackupIdle
    /\ \E n \in 1..MaxVolumes :
          \E names \in {[k \in 1..n |-> "a"], [k \in 1..n |-> IF k = n THEN "b" ELSE "a"]} :
             /\ writer = WriterAfter(names)
             /\ disk = WrittenVolumes(names)
    /\ reader = NoReader

NextReader ==
    \/ \E discover \in BOOLEAN : OpenReader(discover)
    \/ ExtractAllVolume
    \/ ExtractAllReturn

SpecReader == InitReader /\ [][NextReader]_vars

InitVolume ==
    /\ DiffIdle
    /\ DeltaIdle
    /\ BackupIdle
    /\ writer = NewWriter
    /\ disk = <<>>
    /\ reader = NoReader

NextVolume ==
    \/ \E name \in EntryNames, size \in 0..MaxEntrySize : Add(name, size)
    \/ Close
    \/ \E t \in DirTrees : AddDirStart(t)
    \/ AddDirFile
    \/ AddDirClose
    \/ \E member \in MemberNames : Extract(member)
    \/ \E member \in MemberNames : ExtractFile(member)

SpecVolume == InitVolume /\ [][NextVolume]_vars

\* A directory is written by addDir and the volumes returned are read back
\* by extractall.
NextRoundTrip ==
    \/ \E t \in DirTrees : AddDirStart(t)
    \/ AddDirFile
    \/ AddDirClose
    \/ OpenReader(FALSE)
    \/ ExtractAllVolume
    \/ ExtractAllReturn

SpecRoundTrip == InitVolume /\ [][NextRoundTrip]_vars

-----------------------------------------------------------------------------
(* Properties of the volume writer (checked under SpecVolume)                *)

\* The volumes that are closed: rolled past, or closed with the writer.
ClosedVolumes == {v \in DOMAIN disk : ~disk[v].open}

\* C10: every volume that holds more than one entry has a total size of at
\* most the volume size limit when it is closed; only a volume holding a
\* single entry larger than the limit may exceed it.
C10_VolumeBound ==
    \A v \in ClosedVolumes :
        Len(disk[v].members) > 1 => TotalSize(disk[v].members) <= VolumeSize

\* C11: an entry larger than the volume size limit is alone in its volume:
\* the writer rolls before adding it when the volume has content, and rolls
\* again at the next add.
C11_OversizedAlone ==
    \A v \in DOMAIN disk :
        \A k \in 1..Len(disk[v].members) :
            disk[v].members[k].size > VolumeSize => Len(disk[v].members) = 1

\* writer.volumes is vol0, vol1, ... in the order of creation.
VolumesInOrder ==
    /\ Len(writer.volumes) = writer.next_volume
    /\ \A k \in 1..Len(writer.volumes) : writer.volumes[k] = k - 1
    /\ DOMAIN disk = 0..(writer.next_volume - 1)

\* A step leaves every closed volume as it is.
ClosedUntouched ==
    \A v \in DOMAIN disk : ~disk[v].open => (v \in DOMAIN disk' /\ disk'[v] = disk[v])

\* C12: volumes are numbered from 0, by one more at each rollover,
\* writer.volumes lists them in creation order, and no add or rollover
\* writes to a volume that was closed.
C12_VolumeSequence == []VolumesInOrder /\ [][ClosedUntouched]_vars

C12_Witness ==
    /\ Len(writer.volumes) >= 3
    /\ \A v \in DOMAIN disk : disk[v].members # <<>>
    /\ \E v \in DOMAIN disk : ~disk[v].open

\* The volumes the index records for a name: a set, and a list after close().
Recorded(n) ==
    IF writer.closed THEN SeqToSet(writer.volume_index[n]) ELSE writer.volume_index[n]

Holds(v, n) == \E k \in 1..Len(disk[v].members) : disk[v].members[k].name = n

C14_ExtractOne ==
    reader.op \in {"extract", "extractfile"} =>
        IF reader.member \in DOMAIN ReaderIndex
        THEN reader.opened = << ReaderIndex[reader.member][1] >>
        ELSE /\ reader.error = "IOError: Member not found in the volume."
             /\ reader.opened = <<>>

\* C15: extractall opens every volume of the archive in ascending order of
\* the volume number, whether the list of volumes was passed in or found in
\* the archive directory by the key, and extracts all the entries of each.
C15_ExtractAllAscending ==
    /\ \A i, j \in 1..Len(reader.opened) :
          i < j => reader.opened[i] < reader.opened[j]
    /\ reader.op = "extracted" =>
          /\ SeqToSet(reader.opened) = DOMAIN disk
          /\ \A v \in DOMAIN disk : \A k \in 1..Len(disk[v].members) :
                \E e \in 1..Len(reader.extracted) :
                   reader.extracted[e] = [volume |-> v, name |-> disk[v].members[k].name]

\* C23: the volume index close() leaves names only volumes that are written
\* out and closed; as long as a volume is being written, the writer has not
\* been closed and no such index exists.
C23_FinalIndexClosedVolumes ==
    /\ writer.closed =>
          \A n \in DOMAIN writer.volume_index :
              \A v \in Recorded(n) :
                  /\ v \in ClosedVolumes
                  /\ disk[v].st_size = TotalSize(disk[v].members)
    /\ (\E v \in DOMAIN disk : disk[v].open) => ~writer.closed

C23_Witness ==
    /\ writer.closed
    /\ Len(writer.volumes) >= 2
    /\ \E n \in DOMAIN writer.volume_index : Len(writer.volume_index[n]) >= 2

\* C28: a writer to which no entry was added can be closed: close() does
\* not raise, and the volume index it leaves is empty.
C28_CloseWithoutAdd ==
    (~writer.init /\ TotalAdds = 0) =>
        /\ writer.error = "none"
        /\ DOMAIN writer.volume_index = {}

\* C29: once entries were added and the writer is closed, every volume of
\* writer.volumes holds at least one entry, so there are no more volumes
\* than entries.
C29_NoEmptyVolume ==
    (writer.closed /\ TotalAdds >= 1) =>
        /\ \A k \in 1..Len(writer.volumes) :
              disk[writer.volumes[k]].members # <<>>
        /\ Len(writer.volumes) <= TotalAdds

C29_Witness ==
    /\ writer.closed
    /\ writer.dir_instance = EmptyTree
    /\ TotalAdds >= 3
    /\ Len(writer.volumes) \in 2..(TotalAdds - 1)

-----------------------------------------------------------------------------
(* Properties of addDir followed by extractall (checked under SpecRoundTrip) *)

\* The positions of reader.extracted that are files, not directories.
ExtractedFiles ==
    {e \in 1..Len(reader.extracted) :
        \E k \in 1..Len(disk[reader.extracted[e].volume].members) :
            LET m == disk[reader.extracted[e].volume].members[k]
            IN  m.name = reader.extracted[e].name /\ ~m.isdir}

\* The content extractall left under a name: that of the member extracted last.
ExtractedData(n) ==
    LET last == CHOOSE e \in ExtractedFiles :
                    /\ reader.extracted[e].name = n
                    /\ \A e2 \in ExtractedFiles :
                          reader.extracted[e2].name = n => e2 <= e
        ms == disk[reader.extracted[last].volume].members
        k == CHOOSE j \in 1..Len(ms) : ms[j].name = n
    IN  ms[k].data

\* The files of the destination after extractall into an empty directory.
ExtractedTree ==
    [n \in {reader.extracted[e].name : e \in ExtractedFiles} |-> ExtractedData(n)]

\* The files of the directory given to addDir, by their names in the archive.
AddedTree ==
    [n \in {relpath_parent(f) : f \in DOMAIN writer.dir_instance.files} |->
        LET f == CHOOSE g \in DOMAIN writer.dir_instance.files : relpath_parent(g) = n
        IN  writer.dir_instance.files[f]]

\* C24: a directory written with addDir and read back with extractall over
\* the volumes returned, into an empty destination, gives every file of the
\* directory with the same content: the two directories have the same hash.
C24_VolumeRoundTrip ==
    reader.op = "extracted" => ExtractedTree = AddedTree

C24_Witness ==
    /\ reader.op = "extracted"
    /\ Len(writer.volumes) >= 2
    /\ DOMAIN writer.dir_instance.files = DirFiles
    /\ \E v \in DOMAIN disk : Len(disk[v].members) >= 2

\* C26: after addDir, every volume the index records for a name holds a
\* member of that name, directories included, so that extract finds the
\* member in each volume it opens.
C26_IndexSound ==
    writer.closed =>
        \A n \in DOMAIN writer.volume_index :
            \A v \in Recorded(n) : v \in DOMAIN disk /\ Holds(v, n)

-----------------------------------------------------------------------------
(* full_backup, incremental_backup (src/incremental_backups_tools/__init__.py) *)
(* The directory state (dirtools.DirState, compute_diff), the signature      *)
(* vault (sigvault) and librsync are not part of the sources; they are       *)
(* modelled from sections 3, 4.1 to 4.3 of the specification.                *)

\* The trees backups are taken of: two files, one of them two directories deep.
BackupFiles == {"f1", "d/s/f3"}
BackupContents == {<<1, 2, 1>>, <<2, 1, 1>>}
BackupTrees ==
    {t \in Trees : /\ DOMAIN t.files \subseteq BackupFiles
                   /\ \A f \in DOMAIN t.files : t.files[f] \in BackupContents}

\* A file of the cache directory holding the given members, and the path of
\* a file that was not written (None).
File(members) == [exists |-> TRUE, members |-> members]
NoFile == [exists |-> FALSE, members |-> <<>>]

\* dirtools.filehash: the digest of a file's content.
filehash(c) == <<"filehash", c>>

\* DirState(backup_dir).state: the files, the sub-directories and the hash of
\* each file; to_json writes it to the state file of the backup.
DirState(t) ==
    [files   |-> DOMAIN t.files,
     subdirs |-> t.dirs,
     index   |-> [f \in DOMAIN t.files |-> filehash(t.files[f])]]

\* backup_dir.compress_to(created_file): the archive of the whole directory.
compress_to(t) == File([dirs |-> t.dirs, files |-> t.files])

\* A signature vault with the signatures of the given files of the directory.
SigVault(t, fs) == File([f \in fs |-> blockchecksums(t.files[f])])

\* sigvault.SigVaultReader(CACHE_PATH, key).extract(f): the signature of f in
\* the most recent vault of the key that holds one.
RECURSIVE SigVaultExtract(_, _)
SigVaultExtract(cch, f) ==
    IF cch = <<>> THEN "none"
    ELSE IF f \in DOMAIN cch[Len(cch)].sigvault.members
         THEN cch[Len(cch)].sigvault.members[f]
         ELSE SigVaultExtract(SubSeq(cch, 1, Len(cch) - 1), f)

\* compute_diff(state, previous_state), and current_state - last_state.
\* Each of the four is list(set(...)); the order of deleted_dirs is chosen
\* where the list is walked.
compute_diff(dir_base, dir_cmp) ==
    [deleted      |-> dir_cmp.files \ dir_base.files,
     created      |-> dir_base.files \ dir_cmp.files,
     updated      |-> {f \in dir_cmp.files \cap dir_base.files :
                          dir_base.index[f] # dir_cmp.index[f]},
     deleted_dirs |-> dir_cmp.subdirs \ dir_base.subdirs]

\* process_created: the archive of the created files, or None without any.
process_created(created, t) ==
    IF created = {} THEN NoFile ELSE File([f \in created |-> t.files[f]])

\* process_updated: the archive of the deltas of the updated files against
\* the signatures of the vault, or None without any.
process_updated(updated, t, cch) ==
    IF updated = {} THEN NoFile
    ELSE File([f \in updated |-> rsyncdelta(t.files[f], SigVaultExtract(cch, f))])

\* The artifacts full_backup writes for a directory holding tree t.
FullArtifacts(t, dt) ==
    [kind     |-> "full",
     dt       |-> dt,
     state    |-> DirState(t),
     full     |-> compress_to(t),
     created  |-> NoFile,
     updated  |-> NoFile,
     sigvault |-> SigVault(t, DOMAIN t.files)]

\* Dir(cache_path).get('{key}.state.*', sort_reverse=True): the last state.
LastState(cch) == cch[Len(cch)].state

\* The artifacts incremental_backup writes for a directory holding tree t.
IncrementalArtifacts(t, dt, cch) ==
    LET diff == compute_diff(DirState(t), LastState(cch))
    IN  [kind     |-> "incremental",
         dt       |-> dt,
         state    |-> DirState(t),
         full     |-> NoFile,
         created  |-> process_created(diff.created, t),
         updated  |-> process_updated(diff.updated, t, cch),
         sigvault |-> IF diff.created # {} \/ diff.updated # {}
                      THEN SigVault(t, diff.created \cup diff.updated)
                      ELSE NoFile]

\* datetime.utcnow() of a backup: later than that of every backup before.
\* The backups are taken one second apart, the microseconds not being zero.
utcnow(cch) == Len(cch) * MicroBase + 1

\* full_backup(path) of a directory that holds tree t at that time.
FullBackup(t) ==
    /\ restore.pc = "idle"
    /\ Len(cache) < MaxBackups
    /\ cache' = Append(cache, FullArtifacts(t, utcnow(cache)))
    /\ UNCHANGED <<restore, custom, diffVars, deltaVars, volVars>>

\* incremental_backup(path) of a directory that holds tree t at that time,
\* after the modifications made to it since the last backup.
IncrementalBackup(t) ==
    /\ restore.pc = "idle"
    /\ cache # <<>>
    /\ Len(cache) < MaxBackups
    /\ cache' = Append(cache, IncrementalArtifacts(t, utcnow(cache), cache))
    /\ UNCHANGED <<restore, custom, diffVars, deltaVars, volVars>>

-----------------------------------------------------------------------------
(* patch_diff, get_full_and_incremental, restore_backup                      *)

\* The result of a step of patch_diff: the tree and the exception raised.
Ok(t) == [tree |-> t, error |-> "none"]
Fail(t, e) == [tree |-> t, error |-> e]

\* The paths of a set as a list; the paths are distinct, and the steps that
\* walk this list act on one path each.
ListOf(S) == CHOOSE p \in Perms(S) : TRUE

\* os.rmdir(d) of an empty directory
rmdir(t, d) == [t EXCEPT !.dirs = @ \ {d}]

\* patch_diff: for crtd in diff['created']
RECURSIVE PatchCreated(_, _, _)
PatchCreated(r, created, created_archive) ==
    IF r.error # "none" \/ created = <<>> THEN r
    ELSE LET crtd == Head(created)
         IN  IF ~created_archive.exists
             THEN Fail(r.tree, "tarfile.open: no archive")
             ELSE IF crtd \notin DOMAIN created_archive.members
             THEN Fail(r.tree, "Exception: Diff seems corrupted.")
             ELSE PatchCreated(
                      Ok(WriteFile(makedirs(r.tree, dirname(crtd)), crtd,
                                   created_archive.members[crtd])),
                      Tail(created), created_archive)

\* patch_diff: for updtd in diff['updated']
RECURSIVE PatchUpdated(_, _, _)
PatchUpdated(r, updated, updated_archive) ==
    IF r.error # "none" \/ updated = <<>> THEN r
    ELSE LET updtd == Head(updated)
         IN  IF ~updated_archive.exists
             THEN Fail(r.tree, "tarfile.open: no archive")
             ELSE IF updtd \notin DOMAIN updated_archive.members
             THEN Fail(r.tree, "Exception: Diff seems corrupted.")
             ELSE IF updtd \notin DOMAIN r.tree.files
             THEN Fail(r.tree, "IOError")
             ELSE LET p == patchstream(r.tree.files[updtd],
                                       updated_archive.members[updtd])
                  IN  IF ~p.ok
                      THEN Fail(r.tree, "librsync.LibrsyncError")
                      ELSE PatchUpdated(Ok(WriteFile(r.tree, updtd, p.data)),
                                        Tail(updated), updated_archive)

\* patch_diff: for dltd in diff['deleted']
RECURSIVE PatchDeleted(_, _)
PatchDeleted(r, deleted) ==
    IF r.error # "none" \/ deleted = <<>> THEN r
    ELSE PatchDeleted(
             IF Head(deleted) \in DOMAIN r.tree.files
             THEN Ok(RemoveFile(r.tree, Head(deleted)))
             ELSE r,
             Tail(deleted))

\* patch_diff: for dltd_drs in diff['deleted_dirs']; os.rmdir raises OSError
\* on a directory that is not empty.
RECURSIVE PatchDeletedDirs(_, _)
PatchDeletedDirs(r, deleted_dirs) ==
    IF r.error # "none" \/ deleted_dirs = <<>> THEN r
    ELSE LET dltd_drs == Head(deleted_dirs)
         IN  IF dltd_drs \notin r.tree.dirs
             THEN PatchDeletedDirs(r, Tail(deleted_dirs))
             ELSE IF Under(r.tree, dltd_drs) # {}
             THEN Fail(r.tree, "OSError")
             ELSE PatchDeletedDirs(Ok(rmdir(r.tree, dltd_drs)), Tail(deleted_dirs))

\* patch_diff(base_path, diff, created_archive, updated_archive), with the
\* list diff['deleted_dirs'] in the given order.
patch_diff(base, diff, created_archive, updated_archive, deleted_dirs) ==
    PatchDeletedDirs(
        PatchDeleted(
            PatchUpdated(
                PatchCreated(Ok(base), ListOf(diff.created), created_archive),
                ListOf(diff.updated), updated_archive),
            ListOf(diff.deleted)),
        deleted_dirs)

\* datetime.isoformat(): the date and time to the second, and the
\* microseconds after a dot unless they are zero.  As character codes: the
\* digit of the second and, if any, the dot and the digit of the microsecond.
isoformat(dt) ==
    << 48 + (dt \div MicroBase) >>
    \o (IF dt % MicroBase # 0 THEN << 46, 48 + (dt % MicroBase) >> ELSE <<>>)

\* FileFinder.make_key(key_type, key, dt): '{key}.{key_type}.{date}.{ext}';
\* the part of the name from the date on (46 is the dot, 106 the j of json
\* and 116 the t of tgz).
make_key(key_type, dt) ==
    isoformat(dt) \o << 46, IF key_type = "state" THEN 106 ELSE 116 >>

\* key.split('.'): the pieces of a name between the dots, the date onwards.
RECURSIVE split(_, _)
split(name, piece) ==
    IF name = <<>> THEN << piece >>
    ELSE IF Head(name) = 46 THEN << piece >> \o split(Tail(name), <<>>)
    ELSE split(Tail(name), Append(piece, Head(name)))

\* _extract_dt_from_key(key): the two pieces before the extension are parsed
\* as '%Y-%m-%dT%H:%M:%S.%f'.  In a name whose date has no microseconds these
\* two pieces are the key type and the whole date, and strptime raises
\* ValueError.
extract_dt_from_key(name) ==
    LET pieces == split(name, <<>>)
    IN  IF Len(pieces) = 3
        THEN [ok |-> TRUE,
              dt |-> (pieces[1][1] - 48) * MicroBase + (pieces[2][1] - 48)]
        ELSE [ok |-> FALSE, dt |-> 0]

\* The artifacts of a kind in the cache directory, by position in the cache.
FullsOf(cch) == {k \in 1..Len(cch) : cch[k].kind = "full"}
StatesOf(cch) == 1..Len(cch)

\* The files of the given kind sorted by name, the last name first.
RECURSIVE files_reversed(_, _, _)
files_reversed(cch, S, key_type) ==
    IF S = {} THEN <<>>
    ELSE LET first == CHOOSE x \in S : \A y \in S \ {x} :
                         StrLess(make_key(key_type, cch[y].dt),
                                 make_key(key_type, cch[x].dt))
         IN  << first >> \o files_reversed(cch, S \ {first}, key_type)

\* Dir.files(pattern): the files of the given kind sorted by name.
RECURSIVE files(_, _, _)
files(cch, S, key_type) ==
    IF S = {} THEN <<>>
    ELSE LET first == CHOOSE x \in S : \A y \in S \ {x} :
                         StrLess(make_key(key_type, cch[x].dt),
                                 make_key(key_type, cch[y].dt))
         IN  << first >> \o files(cch, S \ {first}, key_type)

\* _dir.get('{key}.full.*', sort_reverse=True): the full backup whose name is
\* the last one.
LastFull(cch) == files(cch, FullsOf(cch), "full")[Cardinality(FullsOf(cch))]

\* FileFinder.check_key('full', key, dt)
HasFullAt(cch, dt) ==
    \E j \in FullsOf(cch) : make_key("full", cch[j].dt) = make_key("full", dt)

\* FileFinder.check_key('state', key, dt): the path of the state file of dt.
StateAt(cch, dt) ==
    CHOOSE j \in StatesOf(cch) : make_key("state", cch[j].dt) = make_key("state", dt)

\* What get_full_and_incremental gives: the elements yielded, and the
\* exception that ended it.
Yielded(chain, error) == [chain |-> chain, error |-> error]

\* The loop without "previous_state = s_file": every state is paired with
\* the state of the full backup.
RECURSIVE StatesFrom_first(_, _, _, _)
StatesFrom_first(cch, s_files, last_full_dt, previous_state) ==
    IF s_files = <<>> THEN Yielded(<<>>, "none")
    ELSE LET s_file == Head(s_files)
             s == extract_dt_from_key(make_key("state", cch[s_file].dt))
             rest == StatesFrom_first(cch, Tail(s_files), last_full_dt, previous_state)
         IN  IF ~s.ok THEN Yielded(<<>>, "ValueError")
             ELSE IF s.dt > last_full_dt /\ ~HasFullAt(cch, s.dt)
             THEN Yielded(<< [state_file          |-> [at |-> s_file, abspath |-> FALSE],
                              previous_state_file |-> previous_state,
                              state_dt            |-> s.dt] >> \o rest.chain,
                          rest.error)
             ELSE rest

\* get_full_and_incremental: the loop over the state files.  The state file
\* is named as _dir.files() lists it, relative to the cache directory; the
\* previous state is the path found by FileFinder for the first one, then
\* the name listed.
RECURSIVE StatesFrom(_, _, _, _)
StatesFrom(cch, s_files, last_full_dt, previous_state) ==
    IF s_files = <<>> THEN Yielded(<<>>, "none")
    ELSE LET s_file == Head(s_files)
             s == extract_dt_from_key(make_key("state", cch[s_file].dt))
         IN  IF ~s.ok THEN Yielded(<<>>, "ValueError")
             ELSE IF s.dt > last_full_dt /\ ~HasFullAt(cch, s.dt)
             THEN LET rest == StatesFrom(cch, Tail(s_files), last_full_dt,
                                         [at |-> s_file, abspath |-> FALSE])
                  IN  Yielded(<< [state_file          |-> [at |-> s_file, abspath |-> FALSE],
                                  previous_state_file |-> previous_state,
                                  state_dt            |-> s.dt] >> \o rest.chain,
                              rest.error)
             ELSE StatesFrom(cch, Tail(s_files), last_full_dt, previous_state)

\* get_full_and_incremental(key): the full backup first, then the states.
get_full_and_incremental(cch) ==
    LET last_full == extract_dt_from_key(make_key("full", cch[LastFull(cch)].dt))
    IN  IF ~last_full.ok THEN Yielded(<<>>, "ValueError")
        ELSE LET rest == StatesFrom(cch, files(cch, StatesOf(cch), "state"),
                                    last_full.dt,
                                    [at |-> StateAt(cch, last_full.dt), abspath |-> TRUE])
             IN  Yielded(<< [state_file          |-> [at |-> LastFull(cch), abspath |-> TRUE],
                             previous_state_file |-> [at |-> 0, abspath |-> TRUE],
                             state_dt            |-> last_full.dt] >> \o rest.chain,
                         rest.error)

\* The directories restore_backup may be run from.
WorkingDirs == {"cache_path", "elsewhere"}

\* open(path, 'rb'): a relative path is looked up in the working directory.
CanOpen(path, cwd) == path.abspath \/ cwd = "cache_path"

\* tarfile.open(state_file, 'r:gz').extractall(dest)
extractall(ar, dest) ==
    [dirs  |-> dest.dirs \cup ar.members.dirs,
     files |-> [f \in (DOMAIN dest.files) \cup (DOMAIN ar.members.files) |->
                   IF f \in DOMAIN ar.members.files
                   THEN ar.members.files[f] ELSE dest.files[f]]]

\* The values of cache_path: the temporary directory (the default, None
\* being replaced by tempfile.gettempdir()) and another directory.
CachePaths == {"tmp", "custom"}

\* restore_backup(key, dest, cache_path) into an empty dest, index 0: the
\* chain is get_full_and_incremental(key), which lists the temporary
\* directory, and the full backup is extracted.
RestoreStart(cache_path, cwd) ==
    /\ restore.pc = "idle"
    /\ cache # <<>>
    /\ LET g == get_full_and_incremental(cache)
       IN  restore' =
              IF g.chain = <<>>
              THEN [NoRestore EXCEPT !.pc = "raised", !.cwd = cwd, !.error = g.error,
                                     !.cache_path = cache_path]
              ELSE [pc          |-> "replay",
                    cache_path  |-> cache_path,
                    chain       |-> g.chain,
                    chain_error |-> g.error,
                    i           |-> 2,
                    dest        |-> extractall(cache[g.chain[1].state_file.at].full,
                                               EmptyTree),
                    cwd         |-> cwd,
                    error       |-> "none",
                    applied     |-> << [state_dt |-> g.chain[1].state_dt,
                                        state    |-> g.chain[1].state_file.at,
                                        previous |-> 0] >>]
    /\ UNCHANGED <<cache, custom, diffVars, deltaVars, volVars>>

\* restore_backup(key, dest): cache_path is None.
RestoreFull(cwd) == RestoreStart("tmp", cwd)

\* restore_backup, index > 0: the next incremental backup is patched in.
RestoreIncremental ==
    /\ restore.pc = "replay"
    /\ restore.i <= Len(restore.chain)
    /\ LET el == restore.chain[restore.i]
           at == CHOOSE k \in 1..Len(cache) : cache[k].dt = el.state_dt
       IN  IF ~CanOpen(el.state_file, restore.cwd)
              \/ ~CanOpen(el.previous_state_file, restore.cwd)
           THEN restore' = [restore EXCEPT !.pc = "raised", !.error = "IOError"]
           ELSE LET state == cache[el.state_file.at].state
                    previous_state == cache[el.previous_state_file.at].state
                    diff == compute_diff(state, previous_state)
                IN  \E deleted_dirs \in Perms(diff.deleted_dirs) :
                       LET r == patch_diff(restore.dest, diff, cache[at].created,
                                           cache[at].updated, deleted_dirs)
                       IN  restore' =
                              IF r.error # "none"
                              THEN [restore EXCEPT !.pc = "raised",
                                                   !.dest = r.tree,
                                                   !.error = r.error]
                              ELSE [restore EXCEPT
                                       !.i = @ + 1,
                                       !.dest = r.tree,
                                       !.applied = Append(@,
                                          [state_dt |-> el.state_dt,
                                           state    |-> el.state_file.at,
                                           previous |-> el.previous_state_file.at])]
    /\ UNCHANGED <<cache, custom, diffVars, deltaVars, volVars>>

\* restore_backup: the chain is exhausted, dest is returned; or the
\* generator raised, and so does restore_backup.
RestoreReturn ==
    /\ restore.pc = "replay"
    /\ restore.i > Len(restore.chain)
    /\ restore' = IF restore.chain_error = "none"
                  THEN [restore EXCEPT !.pc = "done"]
                  ELSE [restore EXCEPT !.pc = "raised", !.error = restore.chain_error]
    /\ UNCHANGED <<cache, custom, diffVars, deltaVars, volVars>>

\* The cache directory after backups of an unchanged directory taken at the
\* instants ts, the first n of them, each a full or an incremental one.
RECURSIVE CacheOf(_, _, _)
CacheOf(ts, kinds, n) ==
    IF n = 0 THEN <<>>
    ELSE LET before == CacheOf(ts, kinds, n - 1)
         IN  Append(before,
                    IF kinds[n] = "full"
                    THEN FullArtifacts(EmptyTree, ts[n])
                    ELSE IncrementalArtifacts(EmptyTree, ts[n], before))

\* The instants of n backups, and their kinds; the first backup is a full one.
Instants(n) ==
    {ts \in [1..n -> 1..MaxClock] : \A i, j \in 1..n : i < j => ts[i] < ts[j]}
Kinds(n) ==
    {kinds \in [1..n -> {"full", "incremental"}] : kinds[1] = "full"}

\* list(get_full_and_incremental(key)): the chain is resolved.
ResolveChain ==
    /\ restore.pc = "idle"
    /\ cache # <<>>
    /\ LET g == get_full_and_incremental(cache)
       IN  restore' = [NoRestore EXCEPT !.pc = "resolved",
                                        !.chain = g.chain,
                                        !.chain_error = g.error]
    /\ UNCHANGED <<cache, custom, diffVars, deltaVars, volVars>>

InitChain ==
    /\ DiffIdle
    /\ DeltaIdle
    /\ VolumeIdle
    /\ \E n \in 1..MaxClock : \E ts \in Instants(n), kinds \in Kinds(n) :
          cache = CacheOf(ts, kinds, n)
    /\ custom = <<>>
    /\ restore = NoRestore

NextChain == ResolveChain

SpecChain == InitChain /\ [][NextChain]_vars

InitBackup ==
    /\ DiffIdle
    /\ DeltaIdle
    /\ VolumeIdle
    /\ cache = <<>>
    /\ custom = <<>>
    /\ restore = NoRestore

NextBackup ==
    \/ \E t \in BackupTrees : FullBackup(t)
    \/ \E t \in BackupTrees : IncrementalBackup(t)
    \/ \E cwd \in WorkingDirs : RestoreFull(cwd)
    \/ RestoreIncremental
    \/ RestoreReturn

SpecBackup == InitBackup /\ [][NextBackup]_vars

-----------------------------------------------------------------------------
(* Backups and restores given a cache_path: the artifacts go to the          *)
(* temporary directory or to another directory, the signature vaults of      *)
(* both to CACHE_PATH.                                                        *)

\* The trees these backups are taken of: the top-level file alone.
CachePathTrees == {t \in BackupTrees : DOMAIN t.files \subseteq {"f1"} /\ t.dirs = {}}

\* The artifacts stored under a cache_path.
Store(cache_path) == IF cache_path = "tmp" THEN cache ELSE custom

\* The backups of both directories, oldest first: the order of their
\* signature vaults in CACHE_PATH.
RECURSIVE Merged(_, _)
Merged(a, b) ==
    IF a = <<>> THEN b
    ELSE IF b = <<>> THEN a
    ELSE IF a[Len(a)].dt > b[Len(b)].dt
    THEN Append(Merged(SubSeq(a, 1, Len(a) - 1), b), a[Len(a)])
    ELSE Append(Merged(a, SubSeq(b, 1, Len(b) - 1)), b[Len(b)])

\* full_backup(path, cache_path)
FullBackupAt(t, cache_path) ==
    /\ restore.pc = "idle"
    /\ Len(cache) + Len(custom) < MaxBackups
    /\ LET artifacts == FullArtifacts(t, utcnow(cache \o custom))
       IN  IF cache_path = "tmp"
           THEN cache' = Append(cache, artifacts) /\ UNCHANGED custom
           ELSE custom' = Append(custom, artifacts) /\ UNCHANGED cache
    /\ UNCHANGED <<restore, diffVars, deltaVars, volVars>>

\* incremental_backup(path, cache_path): the last state is that of
\* cache_path, the signatures are those of CACHE_PATH.
IncrementalBackupAt(t, cache_path) ==
    /\ restore.pc = "idle"
    /\ Store(cache_path) # <<>>
    /\ Len(cache) + Len(custom) < MaxBackups
    /\ LET diff == compute_diff(DirState(t), LastState(Store(cache_path)))
           artifacts ==
              [IncrementalArtifacts(t, utcnow(cache \o custom), Store(cache_path))
                  EXCEPT !.updated = process_updated(diff.updated, t,
                                                     Merged(cache, custom))]
       IN  IF cache_path = "tmp"
           THEN cache' = Append(cache, artifacts) /\ UNCHANGED custom
           ELSE custom' = Append(custom, artifacts) /\ UNCHANGED cache
    /\ UNCHANGED <<restore, diffVars, deltaVars, volVars>>

NextCachePath ==
    \/ \E t \in CachePathTrees, cache_path \in CachePaths : FullBackupAt(t, cache_path)
    \/ \E t \in CachePathTrees, cache_path \in CachePaths :
          IncrementalBackupAt(t, cache_path)
    \/ \E cache_path \in CachePaths, cwd \in WorkingDirs : RestoreStart(cache_path, cwd)
    \/ RestoreIncremental
    \/ RestoreReturn

SpecCachePath == InitBackup /\ [][NextCachePath]_vars

-----------------------------------------------------------------------------
(* Properties of backup and restore (checked under SpecBackup)               *)

\* One full backup, then incremental backups only.
OneFullThenIncrementals ==
    /\ cache # <<>>
    /\ cache[1].kind = "full"
    /\ \A k \in 2..Len(cache) : cache[k].kind = "incremental"

RestoreEnded == restore.pc \in {"done", "raised"}

\* C1: after one full backup of a tree and any sequence of modifications of
\* the tree, each followed by an incremental backup, restore_backup into an
\* empty destination returns, and the destination then holds the files, with
\* the contents, of the source tree at the time of the last backup.
C1_EndToEndRestore ==
    (RestoreEnded /\ OneFullThenIncrementals) =>
        /\ restore.pc = "done"
        /\ DirState(restore.dest).files = LastState(cache).files
        /\ DirState(restore.dest).index = LastState(cache).index

\* C18: restore_backup extracts the full backup first and then patches the
\* incremental backups in, one at a time in the order of the chain, the diff
\* of each being computed between its state and the state of the chain
\* element before it (the state of the full backup for the first one).
C18_ReplayOrder ==
    /\ Len(restore.applied) <= Len(restore.chain)
    /\ \A k \in 1..Len(restore.applied) :
          /\ restore.applied[k].state_dt = restore.chain[k].state_dt
          /\ restore.applied[k].state = restore.chain[k].state_file.at
          /\ cache[restore.applied[k].state].kind =
                (IF k = 1 THEN "full" ELSE "incremental")
          /\ k > 1 => restore.applied[k].previous = restore.applied[k - 1].state

C18_Witness ==
    /\ restore.pc = "done"
    /\ Len(restore.applied) >= 3
    /\ restore.dest # EmptyTree

\* The instants of the backups a chain is made of.
ChainInstants(chain) == [k \in 1..Len(chain) |-> chain[k].state_dt]

\* C22: restore_backup(key, dest, cache_path) takes its chain from the given
\* cache_path: the full backup and the states it reads are those stored
\* under cache_path, whether it is the temporary directory or not.
C22_CachePathUsed ==
    (restore.pc # "idle" /\ Store(restore.cache_path) # <<>>) =>
        ChainInstants(restore.chain)
            = ChainInstants(get_full_and_incremental(Store(restore.cache_path)).chain)

-----------------------------------------------------------------------------
(* Properties of the chain (checked under SpecChain)                         *)

\* The instants of the full backups and of the incremental ones.
FullTimes == {cache[k].dt : k \in FullsOf(cache)}
IncrementalTimes == {cache[k].dt : k \in StatesOf(cache) \ FullsOf(cache)}
ChainTimes(from) == {restore.chain[i].state_dt : i \in from..Len(restore.chain)}

\* C16: the chain get_full_and_incremental gives has strictly increasing
\* timestamps, from the full backup it starts with to its last incremental.
C16_ChainIncreasing ==
    restore.pc = "resolved" =>
        \A i, j \in 1..Len(restore.chain) :
            i < j => restore.chain[i].state_dt < restore.chain[j].state_dt

C16_Witness ==
    /\ restore.pc = "resolved"
    /\ Len(restore.chain) >= 3
    /\ Cardinality(FullTimes) >= 2

\* C17: the chain starts with the full backup of the greatest timestamp, and
\* goes on with exactly the states later than it at whose timestamp there is
\* no full backup.
C17_ChainSelection ==
    restore.pc = "resolved" =>
        /\ restore.chain # <<>>
        /\ restore.chain[1].state_dt \in FullTimes
        /\ \A dt \in FullTimes : dt <= restore.chain[1].state_dt
        /\ ChainTimes(2) =
              {dt \in IncrementalTimes : dt > restore.chain[1].state_dt}

=============================================================================
